---- MODULE Spec2Model ----
(***************************************************************************)
(* A model of the DependentAttr descriptor of dataflowAttributes.py and of *)
(* the DataflowSuccess owner class of example.py.                          *)
(*                                                                         *)
(* A descriptor is a class attribute: its fields value and children live   *)
(* on the descriptor object, one per owner class and attribute name.  An   *)
(* operation (an attribute read or an attribute assignment made by a       *)
(* caller on some instance) runs the whole synchronous call chain of       *)
(* __get__ / __set__ / update_aN and is one action of the model.           *)
(***************************************************************************)
EXTENDS Integers, Sequences, FiniteSets, TLC

(***************************************************************************)
(* Bounds of the model.                                                    *)
(***************************************************************************)
\* Instances of the owner class that callers hold: 1..NumInstances.
NumInstances == 2

Instances == 1 .. NumInstances

(***************************************************************************)
(* Python values.  A value is an object: its content (val), its type       *)
(* (kind) and its identity (oid).  `is` compares objects, == compares      *)
(* content.  The only objects ever compared by `is` are the one a          *)
(* descriptor holds and the one handed to __set__, so identities are kept  *)
(* relative to the descriptor: HeldOid names the object the descriptor     *)
(* holds, FreshOid an object that is not that one.                         *)
(***************************************************************************)
HeldOid == 0

FreshOid == 1

AttrNullState == [kind |-> "AttrNullState", oid |-> 0, val |-> 0]

PyNone == [kind |-> "None", oid |-> 0, val |-> 0]

IntObj(n, o) == [kind |-> "int", oid |-> o, val |-> n]

\* A string built by concatenation: a sequence of one-character strings.
StrObj(s) == [kind |-> "str", oid |-> FreshOid, val |-> s]

\* x is y
Is(x, y) == x.kind = y.kind /\ x.oid = y.oid /\ x.val = y.val

\* x == y
PyEq(x, y) == x.kind = y.kind /\ x.val = y.val

Digit == <<"0", "1", "2", "3", "4", "5", "6", "7", "8", "9">>

RECURSIVE Str(_)
\* str(n) of a non-negative int
Str(n) == IF n < 10 THEN <<Digit[n + 1]>> ELSE Str(n \div 10) \o <<Digit[(n % 10) + 1]>>

DigitValue(c) == CHOOSE k \in 0 .. 9 : Digit[k + 1] = c

IsDigit(c) == \E k \in 0 .. 9 : Digit[k + 1] = c

(***************************************************************************)
(* eval(s) for the expressions the update functions build: non-negative    *)
(* integer literals, +, * and parentheses, with * binding tighter than +.  *)
(* Each parser returns [v |-> value, p |-> next position].                 *)
(***************************************************************************)
RECURSIVE ParseNumber(_, _, _)
ParseNumber(s, p, acc) ==
    IF p <= Len(s) /\ IsDigit(s[p])
    THEN ParseNumber(s, p + 1, 10 * acc + DigitValue(s[p]))
    ELSE [v |-> acc, p |-> p]

RECURSIVE ParseExpr(_, _), ParseTerm(_, _), ParseFactor(_, _), MoreTerms(_, _), MoreFactors(_, _)
ParseFactor(s, p) ==
    IF s[p] = "("
    THEN LET e == ParseExpr(s, p + 1) IN [v |-> e.v, p |-> e.p + 1]
    ELSE ParseNumber(s, p, 0)

MoreFactors(s, l) ==
    IF l.p <= Len(s) /\ s[l.p] = "*"
    THEN LET r == ParseFactor(s, l.p + 1) IN MoreFactors(s, [v |-> l.v * r.v, p |-> r.p])
    ELSE l

ParseTerm(s, p) == MoreFactors(s, ParseFactor(s, p))

MoreTerms(s, l) ==
    IF l.p <= Len(s) /\ s[l.p] = "+"
    THEN LET r == ParseTerm(s, l.p + 1) IN MoreTerms(s, [v |-> l.v + r.v, p |-> r.p])
    ELSE l

ParseExpr(s, p) == MoreTerms(s, ParseTerm(s, p))

Eval(s) == ParseExpr(s, 1).v

(***************************************************************************)
(* Descriptor construction.                                                *)
(***************************************************************************)
\* calc_func = None
NoCalc == "None"

\* A variant of DependentAttr: an init_value of None always becomes the null
\* state.
DependentAttrNullable(init_value, dependencies, calc_func, name) ==
    [value |-> IF Is(init_value, PyNone) THEN AttrNullState ELSE init_value,
     dependencies |-> dependencies,
     calc_func |-> calc_func,
     name |-> name,
     children |-> <<>>]

\* DependentAttr.__init__ (dependencies is always given as a list here).
DependentAttr(init_value, dependencies, calc_func, name) ==
    [value |-> IF Is(init_value, PyNone) /\ Len(dependencies) > 0
               THEN AttrNullState
               ELSE init_value,
     dependencies |-> dependencies,
     calc_func |-> calc_func,
     name |-> name,
     children |-> <<>>]

IndependentAttr(init_value, name) == DependentAttr(init_value, <<>>, NoCalc, name)

\* A variant of DeterminantAttr: the descriptor starts with None as its
\* value.
DeterminantAttrNone(dependencies, calc_func, name) ==
    [DependentAttr(PyNone, dependencies, calc_func, name) EXCEPT !.value = PyNone]

DeterminantAttr(dependencies, calc_func, name) ==
    DependentAttr(AttrNullState, dependencies, calc_func, name)

(***************************************************************************)
(* Owner classes.  DataflowSuccess is the class of example.py.             *)
(* DataflowStale is the same class with an update_a3 that returns without  *)
(* assigning self.a3, an owner that breaks the compute-method contract.    *)
(* The other classes are DataflowSuccess with one declaration changed:     *)
(*   DataflowNoMethod    update_a3 is not defined                          *)
(*   DataflowNoCalc      a3 = DependentAttr(None, ['a2'], None, 'a3')      *)
(*   DataflowMissingDep  a5 depends on a1, a2, a0, a3, a6; there is no a0  *)
(*   DataflowPreset      a3 = DependentAttr('3', ['a2'], 'update_a3', 'a3')*)
(*   DataflowUnset       a6 = IndependentAttr(None, 'a6')                  *)
(***************************************************************************)
Attrs == {"a1", "a2", "a3", "a4", "a5", "a6", "a7"}

DataflowSuccess ==
    [a1 |-> IndependentAttr(IntObj(1, HeldOid), "a1"),
     a2 |-> DeterminantAttr(<<"a1">>, "update_a2", "a2"),
     a3 |-> DeterminantAttr(<<"a2">>, "update_a3", "a3"),
     a4 |-> DeterminantAttr(<<"a1", "a2">>, "update_a4", "a4"),
     a5 |-> DeterminantAttr(<<"a1", "a2", "a3", "a6">>, "update_a5", "a5"),
     a6 |-> IndependentAttr(IntObj(6, HeldOid), "a6"),
     a7 |-> DeterminantAttr(<<"a4", "a5">>, "update_a7", "a7")]

UpdateMethods == {"update_a2", "update_a3", "update_a4", "update_a5", "update_a7"}

GoodClasses == {"DataflowSuccess"}

FaultyClasses == {"DataflowStale"}

\* Classes whose declarations differ from those of DataflowSuccess.
DeclaredClasses ==
    {"DataflowNoMethod", "DataflowNoCalc", "DataflowMissingDep", "DataflowPreset",
     "DataflowUnset"}

\* The descriptors the class body of owner class c constructs.
ClassBody(c) ==
    CASE c = "DataflowNoCalc" ->
           [DataflowSuccess EXCEPT !.a3 = DependentAttr(PyNone, <<"a2">>, NoCalc, "a3")]
      [] c = "DataflowMissingDep" ->
           [DataflowSuccess EXCEPT
              !.a5 = DeterminantAttr(<<"a1", "a2", "a0", "a3", "a6">>, "update_a5", "a5")]
      [] c = "DataflowPreset" ->
           [DataflowSuccess EXCEPT
              !.a3 = DependentAttr(StrObj(<<"3">>), <<"a2">>, "update_a3", "a3")]
      [] c = "DataflowUnset" ->
           [DataflowSuccess EXCEPT !.a6 = IndependentAttr(PyNone, "a6")]
      [] OTHER -> DataflowSuccess

\* The class bodies are executed once, when the classes are defined.
ClassDicts == [c \in GoodClasses \cup FaultyClasses \cup DeclaredClasses |-> ClassBody(c)]

\* The descriptors in the class body of owner class c.
ClassDict(c) == ClassDicts[c]

\* The attributes with dependencies that owner class c declares with an
\* init_value other than None.
PresetAttrs(c) == IF c = "DataflowPreset" THEN {"a3"} ELSE {}

\* The methods owner class c defines.
Methods(c) == IF c = "DataflowNoMethod" THEN UpdateMethods \ {"update_a3"} ELSE UpdateMethods

\* The methods of c that return without assigning their attribute.
SilentMethods(c) == IF c = "DataflowStale" THEN {"update_a3"} ELSE {}

Dependencies(c, a) == ClassDict(c)[a].dependencies

CalcFunc(c, a) == ClassDict(c)[a].calc_func

\* hasattr(obj, name) finds a class attribute: a descriptor or a method.
ClassHasAttr(c, name) == name \in DOMAIN ClassDict(c) \/ name \in Methods(c)

IsDescriptor(c, name) == name \in DOMAIN ClassDict(c)

Independent(c) == {a \in Attrs : Len(Dependencies(c, a)) = 0}

Derived(c) == Attrs \ Independent(c)

(***************************************************************************)
(* The engine.  An operation threads a record st through its call chain:   *)
(*   cls       type(obj), the owner class                                  *)
(*   value     descriptor.value of each attribute                          *)
(*   children  descriptor.children of each attribute                       *)
(*   trace     what happened so far: a record per __get__ entry ("get",    *)
(*             ok = the value was valid on entry), per update function     *)
(*             invoked by __get__ ("calc", ok = every declared dependency  *)
(*             was valid at that moment) and per __set__ entry ("set",     *)
(*             ok = the value was replaced), with the nesting depth d of   *)
(*             the __get__ (for get and calc) or __set__ calls             *)
(*   err       the ValueError raised, or NoErr                             *)
(*   ret       the value the last __get__ returned                         *)
(*   rd        the values an update function has read                      *)
(*   gd, sd    current nesting depth of __get__ and of __set__ calls       *)
(***************************************************************************)
NoErr == "none"

\* The four ValueErrors of __get__, by the line that raises them.
MissingDependencyError == "MissingDependencyError"

DependencyUpdateError == "DependencyUpdateError"

MissingComputeError == "MissingComputeError"

StaleComputeError == "StaleComputeError"

\* What eval raises in update_a7 on an expression that holds None.
TypeError == "TypeError"

\* The errors __get__ itself raises.
EngineErrors ==
    {MissingDependencyError, DependencyUpdateError, MissingComputeError, StaleComputeError}

Emit(st, ev, a, ok, d) ==
    [st EXCEPT !.trace = Append(@, [ev |-> ev, attr |-> a, ok |-> ok, d |-> d])]

Raise(st, e) == [st EXCEPT !.err = e]

\* self.value is AttrNullState
IsNull(st, a) == Is(st.value[a], AttrNullState)

\* A variant of NeedsUpdate: a caller's read of a derived attribute always
\* recalculates it.
NeedsUpdateUncached(st, a) ==
    IsNull(st, a) \/ (st.gd = 1 /\ Len(Dependencies(st.cls, a)) > 0)

\* Line 76: if self.value is AttrNullState
NeedsUpdate(st, a) == IsNull(st, a)

\* Line 114: if self.value is not value
Differs(st, a, v) == ~Is(st.value[a], v)

\* A variant of RegisterChild: the parent is never told of its child.
RegisterChildNever(st, a, dep) == st

\* A variant of RegisterChild: the child is appended without looking for it.
RegisterChildAgain(st, a, dep) == [st EXCEPT !.children[dep] = Append(@, a)]

\* if self.name not in parent.children: parent.children.append(self.name)
RegisterChild(st, a, dep) ==
    IF \E k \in 1 .. Len(st.children[dep]) : st.children[dep][k] = a
    THEN st
    ELSE [st EXCEPT !.children[dep] = Append(@, a)]

\* Every declared dependency of a that is a descriptor holds a value.
DependenciesReady(st, a) ==
    \A k \in 1 .. Len(Dependencies(st.cls, a)) :
        LET dep == Dependencies(st.cls, a)[k]
        IN IsDescriptor(st.cls, dep) => ~IsNull(st, dep)

RECURSIVE Get(_, _, _), Set(_, _, _, _), ResolveDependencies(_, _, _, _)
RECURSIVE InvalidateChildren(_, _, _, _), ReadFrom(_, _, _, _, _), Update(_, _, _)

\* The attribute reads an update function makes, in order; rd collects them.
ReadFrom(st, obj, names, k, acc) ==
    IF k > Len(names)
    THEN [st EXCEPT !.rd = acc]
    ELSE LET g == Get(st, obj, names[k])
         IN IF g.err # NoErr THEN g
            ELSE ReadFrom(g, obj, names, k + 1, Append(acc, g.ret))

Reads(st, obj, names) == ReadFrom(st, obj, names, 1, <<>>)

\* str(x)
PyStr(x) ==
    IF x.kind = "int" THEN Str(x.val)
    ELSE IF x.kind = "None" THEN <<"N", "o", "n", "e">>
    ELSE x.val

\* eval(s) raises TypeError when s multiplies or adds None.
EvalRaises(s) == \E k \in 1 .. Len(s) : s[k] = "N"

\* self.a2 = '('+str(self.a1)+'+2'+')'
update_a2(st, obj) ==
    LET r == Reads(st, obj, <<"a1">>)
    IN IF r.err # NoErr THEN r
       ELSE LET w == Set(r, obj, "a2",
                         StrObj(<<"(">> \o PyStr(r.rd[1]) \o <<"+", "2", ")">>))
            IN Reads(w, obj, <<"a2">>)

\* self.a3 = '('+ self.a2 + '+3)'
update_a3(st, obj) ==
    LET r == Reads(st, obj, <<"a2">>)
    IN IF r.err # NoErr THEN r
       ELSE LET w == Set(r, obj, "a3",
                         StrObj(<<"(">> \o r.rd[1].val \o <<"+", "3", ")">>))
            IN Reads(w, obj, <<"a3">>)

\* self.a4 = '(' + str(self.a1) + '*' + self.a2 + '+4)'
update_a4(st, obj) ==
    LET r == Reads(st, obj, <<"a1", "a2">>)
    IN IF r.err # NoErr THEN r
       ELSE LET w == Set(r, obj, "a4",
                         StrObj(<<"(">> \o PyStr(r.rd[1]) \o <<"*">> \o r.rd[2].val
                                \o <<"+", "4", ")">>))
            IN Reads(w, obj, <<"a4">>)

\* A variant of update_a5: a3 + a6 in place of a3 * a6.
update_a5_sum(st, obj) ==
    LET r == Reads(st, obj, <<"a1", "a2", "a3", "a6">>)
    IN IF r.err # NoErr THEN r
       ELSE LET w == Set(r, obj, "a5",
                         StrObj(<<"(">> \o PyStr(r.rd[1]) \o <<"+">> \o r.rd[2].val
                                \o <<"+">> \o r.rd[3].val \o <<"+">> \o PyStr(r.rd[4])
                                \o <<"+", "5", ")">>))
            IN Reads(w, obj, <<"a5">>)

\* self.a5 = '(' + str(self.a1) + '+' + self.a2 + '+' + self.a3 + '*' + str(self.a6) + '+5)'
update_a5(st, obj) ==
    LET r == Reads(st, obj, <<"a1", "a2", "a3", "a6">>)
    IN IF r.err # NoErr THEN r
       ELSE LET w == Set(r, obj, "a5",
                         StrObj(<<"(">> \o PyStr(r.rd[1]) \o <<"+">> \o r.rd[2].val
                                \o <<"+">> \o r.rd[3].val \o <<"*">> \o PyStr(r.rd[4])
                                \o <<"+", "5", ")">>))
            IN Reads(w, obj, <<"a5">>)

\* self.a7 = '(' + self.a4 + '*' + self.a5 + '+7)', then the reads of the
\* printed check: self.a7, eval(self.a7), str(self.a6), str(self.a1)
update_a7(st, obj) ==
    LET r == Reads(st, obj, <<"a4", "a5">>)
    IN IF r.err # NoErr THEN r
       ELSE LET w == Set(r, obj, "a7",
                         StrObj(<<"(">> \o r.rd[1].val \o <<"*">> \o r.rd[2].val
                                \o <<"+", "7", ")">>))
                p == Reads(w, obj, <<"a7", "a7">>)
            IN IF p.err # NoErr THEN p
               ELSE IF EvalRaises(p.rd[2].val) THEN Raise(p, TypeError)
               ELSE Reads(p, obj, <<"a6", "a1">>)

\* update_func(): the bound method named m of obj.
Update(st, obj, m) ==
    IF m \in SilentMethods(st.cls) THEN st
    ELSE CASE m = "update_a2" -> update_a2(st, obj)
           [] m = "update_a3" -> update_a3(st, obj)
           [] m = "update_a4" -> update_a4(st, obj)
           [] m = "update_a5" -> update_a5(st, obj)
           [] m = "update_a7" -> update_a7(st, obj)

\* A variant of CallUpdate: the update function is called twice.
CallUpdateTwice(st, obj, a) ==
    LET m == CalcFunc(st.cls, a)
        c == Update(Emit(st, "calc", a, DependenciesReady(st, a), st.gd), obj, m)
    IN IF c.err # NoErr THEN c
       ELSE Update(Emit(c, "calc", a, DependenciesReady(c, a), c.gd), obj, m)

\* A variant of CallUpdate: a method the owner lacks is skipped, as a
\* calc_func of None is.
CallUpdateLenient(st, obj, a) ==
    LET m == CalcFunc(st.cls, a)
    IN IF m = NoCalc \/ m \notin Methods(st.cls) THEN st
       ELSE Update(Emit(st, "calc", a, DependenciesReady(st, a), st.gd), obj, m)

\* Lines 96-104: the update function is looked up on obj and called.
CallUpdate(st, obj, a) ==
    LET m == CalcFunc(st.cls, a)
    IN IF m = NoCalc THEN st
       ELSE IF m \in Methods(st.cls)
            THEN Update(Emit(st, "calc", a, DependenciesReady(st, a), st.gd), obj, m)
            ELSE Raise(st, MissingComputeError)

\* A variant of ResolveDependencies: only the first dependency is resolved.
ResolveFirstOnly(st, obj, a, k) ==
    IF k > 1 \/ k > Len(Dependencies(st.cls, a))
    THEN st
    ELSE LET dep == Dependencies(st.cls, a)[k]
             g == Get(RegisterChild(Get(st, obj, dep), a, dep), obj, dep)
         IN g

\* A variant of ResolveDependencies: a dependency the owner lacks is passed
\* over, as a dependency that is no descriptor is.
ResolveSkipMissing(st, obj, a, k) ==
    IF k > Len(Dependencies(st.cls, a))
    THEN st
    ELSE LET dep == Dependencies(st.cls, a)[k]
         IN IF ~IsDescriptor(st.cls, dep)
            THEN ResolveDependencies(st, obj, a, k + 1)
            ELSE LET g == Get(RegisterChild(Get(st, obj, dep), a, dep), obj, dep)
                 IN IF g.err # NoErr THEN g
                    ELSE ResolveDependencies(g, obj, a, k + 1)

\* Lines 78-95, from the k-th dependency on.  hasattr(obj, dependency)
\* evaluates the attribute, so it runs the dependency's __get__ (and lets
\* its ValueError through) before the child is registered.
ResolveDependencies(st, obj, a, k) ==
    IF k > Len(Dependencies(st.cls, a))
    THEN st
    ELSE LET dep == Dependencies(st.cls, a)[k]
         IN IF ~ClassHasAttr(st.cls, dep)
            THEN Raise(st, MissingDependencyError)
            ELSE IF ~IsDescriptor(st.cls, dep)
            THEN ResolveDependencies(st, obj, a, k + 1)
            ELSE LET h == Get(st, obj, dep)
                 IN IF h.err # NoErr THEN h
                    ELSE LET g == Get(RegisterChild(h, a, dep), obj, dep)
                         IN IF g.err # NoErr THEN g
                            ELSE IF Is(g.ret, AttrNullState)
                            THEN Raise(g, DependencyUpdateError)
                            ELSE ResolveDependencies(g, obj, a, k + 1)

\* A variant of ReturnValue: the value is returned whatever it is.
ReturnValueUnchecked(st, a) == [st EXCEPT !.ret = st.value[a], !.gd = @ - 1]

\* A variant of ReturnValue: the call of __get__ does not return to its
\* caller's depth, so the next read of the caller nests inside it.
ReturnValueNested(st, a) ==
    IF IsNull(st, a)
    THEN Raise(st, StaleComputeError)
    ELSE [st EXCEPT !.ret = st.value[a]]

\* A variant of ReturnValue: None is stored as a default before the error
\* is raised.
ReturnValueDefault(st, a) ==
    IF IsNull(st, a)
    THEN Raise([st EXCEPT !.value[a] = PyNone], StaleComputeError)
    ELSE [st EXCEPT !.ret = st.value[a], !.gd = @ - 1]

\* Lines 105-109: the value is returned unless it is still the null state.
ReturnValue(st, a) ==
    IF IsNull(st, a)
    THEN Raise(st, StaleComputeError)
    ELSE [st EXCEPT !.ret = st.value[a], !.gd = @ - 1]

\* DependentAttr.__get__(self, obj, objtype) of the descriptor named a.
Get(st, obj, a) ==
    LET s0 == Emit([st EXCEPT !.gd = @ + 1], "get", a, ~IsNull(st, a), st.gd + 1)
        s1 == IF NeedsUpdate(s0, a)
              THEN LET s2 == ResolveDependencies(s0, obj, a, 1)
                   IN IF s2.err # NoErr THEN s2 ELSE CallUpdate(s2, obj, a)
              ELSE s0
    IN IF s1.err # NoErr THEN s1 ELSE ReturnValue(s1, a)

\* A variant of InvalidateChildren: the loop stops after the first child.
InvalidateFirstOnly(st, obj, a, k) ==
    IF k > 1 \/ k > Len(st.children[a])
    THEN st
    ELSE Set(st, obj, st.children[a][k], AttrNullState)

\* A variant of InvalidateChildren: the null state is stored into each
\* child's descriptor directly, without the child's __set__.
InvalidateDirectOnly(st, obj, a, k) ==
    IF k > Len(st.children[a])
    THEN st
    ELSE InvalidateChildren([st EXCEPT !.value[st.children[a][k]] = AttrNullState],
                            obj, a, k + 1)

\* A variant of InvalidateChildren: the loop passes over the first child.
InvalidateSkipFirst(st, obj, a, k) ==
    IF k > Len(st.children[a])
    THEN st
    ELSE IF k = 1
    THEN InvalidateChildren(st, obj, a, 2)
    ELSE InvalidateChildren(Set(st, obj, st.children[a][k], AttrNullState), obj, a, k + 1)

\* Lines 117-119, from the k-th child on: setattr(obj, child, AttrNullState).
InvalidateChildren(st, obj, a, k) ==
    IF k > Len(st.children[a])
    THEN st
    ELSE InvalidateChildren(Set(st, obj, st.children[a][k], AttrNullState), obj, a, k + 1)

\* DependentAttr.__set__(self, obj, value) of the descriptor named a.
Set(st, obj, a, v) ==
    LET s0 == Emit([st EXCEPT !.sd = @ + 1], "set", a, Differs(st, a, v), st.sd + 1)
        s1 == IF Differs(s0, a, v)
              THEN InvalidateChildren([s0 EXCEPT !.value[a] = v], obj, a, 1)
              ELSE s0
    IN [s1 EXCEPT !.sd = @ - 1]

(***************************************************************************)
(* The dependency graph of a class, as declared.                           *)
(***************************************************************************)
DependsOn(c, b, a) == \E k \in 1 .. Len(Dependencies(c, b)) : Dependencies(c, b)[k] = a

RECURSIVE Reaches(_, _, _, _)
\* b depends on a through at most n declared edges (n >= 1).
Reaches(c, b, a, n) ==
    /\ n > 0
    /\ \/ DependsOn(c, b, a)
       \/ \E m \in Attrs : DependsOn(c, b, m) /\ Reaches(c, m, a, n - 1)

\* The attributes that depend on a, directly or not.
TransitiveDependents(c, a) == {b \in Attrs : Reaches(c, b, a, Cardinality(Attrs))}

\* The attributes b depends on, directly or not.
TransitiveDependencies(c, b) == {a \in Attrs : Reaches(c, b, a, Cardinality(Attrs))}

RECURSIVE ChainLayers(_, _, _)
\* The rounds it takes to reach every attribute from those in done, a round
\* reaching the attributes whose dependencies have all been reached: the
\* attributes reached in round k end a longest chain of k attributes.
ChainLayers(c, done, n) ==
    IF done = Attrs THEN n
    ELSE ChainLayers(c, done \cup {a \in Attrs : \A b \in Attrs : DependsOn(c, a, b) => b \in done},
                     n + 1)

LongestChains ==
    [c \in GoodClasses \cup FaultyClasses \cup DeclaredClasses |-> ChainLayers(c, {}, 0)]

\* The number of attributes on the longest dependency chain of the graph.
LongestChain(c) == LongestChains[c]

\* The attributes on a dependency path from a to b, b included.
OnPath(c, a, b) ==
    {b} \cup (TransitiveDependents(c, a) \cap TransitiveDependencies(c, b))

(***************************************************************************)
(* What a trace says.                                                      *)
(***************************************************************************)
\* The attributes whose update function was invoked, in order.
Calcs(trace) == SelectSeq(trace, LAMBDA e : e.ev = "calc")

CalcSet(trace) == {trace[k].attr : k \in {j \in 1 .. Len(trace) : trace[j].ev = "calc"}}

CalcCount(trace, a) == Len(SelectSeq(trace, LAMBDA e : e.ev = "calc" /\ e.attr = a))

\* The attributes whose __get__ ran.
GetSet(trace) == {trace[k].attr : k \in {j \in 1 .. Len(trace) : trace[j].ev = "get"}}

\* The attributes whose __set__ ran, and those whose value it replaced.
SetSet(trace) == {trace[k].attr : k \in {j \in 1 .. Len(trace) : trace[j].ev = "set"}}

StoredSet(trace) ==
    {trace[k].attr : k \in {j \in 1 .. Len(trace) : trace[j].ev = "set" /\ trace[j].ok}}

(***************************************************************************)
(* DataflowFail.full_update of example.py: the same update functions on    *)
(* plain attributes, each run once in the order a2, a3, a4, a5, a7, from   *)
(* the ints a1 and a6.  It is the from-scratch evaluation of the graph.    *)
(***************************************************************************)
full_update(a1, a6) ==
    LET a2 == <<"(">> \o Str(a1) \o <<"+", "2", ")">>
        a3 == <<"(">> \o a2 \o <<"+", "3", ")">>
        a4 == <<"(">> \o Str(a1) \o <<"*">> \o a2 \o <<"+", "4", ")">>
        a5 == <<"(">> \o Str(a1) \o <<"+">> \o a2 \o <<"+">> \o a3 \o <<"*">> \o Str(a6)
              \o <<"+", "5", ")">>
        a7 == <<"(">> \o a4 \o <<"*">> \o a5 \o <<"+", "7", ")">>
    IN [a2 |-> a2, a3 |-> a3, a4 |-> a4, a5 |-> a5, a7 |-> a7]

(***************************************************************************)
(* State.                                                                  *)
(***************************************************************************)
VARIABLES
    cls,       \* the owner class of the instances
    value,     \* value[a]: the value field of descriptor a (AttrNullState if invalid)
    children,  \* children[a]: the children list of descriptor a
    lastOp,    \* the last operation a caller made, and what it did (open: the
               \* __get__ and __set__ calls that had not returned when it returned)
    runs,      \* history: runs[a] counts the invocations of a's update function
               \* since the last assignment by a caller that replaced a value
    created,   \* the instances 1..created of cls have been constructed
    seen       \* history: seen[a] is 0 while no __get__ of a has run, 2 once a
               \* read that returned has found a invalid on the way, else 1

vars == <<cls, value, children, lastOp, runs, created, seen>>

\* A bound on the history counter runs.
MaxRuns == 3

\* The content of the descriptors, as an operation sees it on entry.
Heap ==
    [cls |-> cls, value |-> value, children |-> children, trace |-> <<>>,
     err |-> NoErr, ret |-> AttrNullState, rd |-> <<>>, gd |-> 0, sd |-> 0]

\* obj.a reaches the descriptor through type(obj): the slot of attribute a
\* that instance i sees is the descriptor's own field.
SlotValue(i, a) == value[a]

SlotChildren(i, a) == children[a]

\* After an operation the objects the descriptors hold are the held ones.
HeldObject(x) == [x EXCEPT !.oid = HeldOid]

Held(v) == [a \in Attrs |-> HeldObject(v[a])]

\* The ints example.py assigns to a1 (1 and 9) and to a6 (6 and 4).
AssignedInts(a) == IF a = "a1" THEN {1, 9} ELSE {6, 4}

\* What a caller can assign to a: the very object the descriptor holds
\* (obj.a = obj.a), or another object with one of the assigned contents.
AssignedObjects(a) == {value[a]} \cup {IntObj(n, FreshOid) : n \in AssignedInts(a)}

\* The class body of c has been executed and a first instance constructed.
InitFor(c) ==
    /\ cls = c
    /\ value = Held([a \in Attrs |-> ClassDict(c)[a].value])
    /\ children = [a \in Attrs |-> ClassDict(c)[a].children]
    /\ lastOp = [op |-> "new", inst |-> 1, attr |-> "", arg |-> AttrNullState,
                 trace |-> <<>>, err |-> NoErr, ret |-> AttrNullState, open |-> 0]
    /\ runs = [a \in Attrs |-> 0]
    /\ created = 1
    /\ seen = [a \in Attrs |-> 0]

Init == \E c \in GoodClasses : InitFor(c)

\* A caller evaluates obj.a on instance i.
GetAttr(i, a) ==
    \E r \in {Get(Heap, i, a)} :
       /\ value' = Held(r.value)
       /\ children' = r.children
       /\ lastOp' = [op |-> "get", inst |-> i, attr |-> a, arg |-> AttrNullState,
                     trace |-> r.trace, err |-> r.err,
                     ret |-> IF r.err = NoErr THEN HeldObject(r.ret) ELSE AttrNullState,
                     open |-> IF r.err = NoErr THEN r.gd + r.sd ELSE 0]
       /\ UNCHANGED cls

\* A caller executes obj.a = v on instance i.
SetAttr(i, a, v) ==
    \E r \in {Set(Heap, i, a, v)} :
       /\ value' = Held(r.value)
       /\ children' = r.children
       /\ lastOp' = [op |-> "set", inst |-> i, attr |-> a, arg |-> v,
                     trace |-> r.trace, err |-> r.err, ret |-> AttrNullState,
                     open |-> IF r.err = NoErr THEN r.gd + r.sd ELSE 0]
       /\ UNCHANGED cls

\* One instance, reads of any attribute, assignments to independent ones.
Operation(i) ==
    \/ \E a \in Attrs : GetAttr(i, a)
    \/ \E a \in Independent(cls) : \E v \in AssignedObjects(a) : SetAttr(i, a, v)

Next == Operation(1) /\ UNCHANGED <<runs, created, seen>>

Spec == Init /\ [][Next]_vars

\* The history runs, kept from what the operation did.
RunsAfter ==
    IF lastOp'.op = "set"
    THEN IF StoredSet(lastOp'.trace) = {} THEN runs ELSE [b \in Attrs |-> 0]
    ELSE [b \in Attrs |->
            IF runs[b] + CalcCount(lastOp'.trace, b) > MaxRuns
            THEN MaxRuns
            ELSE runs[b] + CalcCount(lastOp'.trace, b)]

NextRuns == Operation(1) /\ runs' = RunsAfter /\ UNCHANGED <<created, seen>>

SpecRuns == Init /\ [][NextRuns]_vars

\* A caller constructs another instance: DataflowSuccess().  __init__ is
\* `pass`, and the descriptors are attributes of the class.
NewInstance ==
    /\ created < NumInstances
    /\ created' = created + 1
    /\ lastOp' = [op |-> "new", inst |-> created + 1, attr |-> "", arg |-> AttrNullState,
                  trace |-> <<>>, err |-> NoErr, ret |-> AttrNullState, open |-> 0]
    /\ UNCHANGED <<cls, value, children, runs, seen>>

\* Several instances of the class, each used by callers.
NextShared ==
    \/ NewInstance
    \/ \E i \in 1 .. created : Operation(i) /\ UNCHANGED <<runs, created, seen>>

SpecShared == Init /\ [][NextShared]_vars

\* Owner classes that break the compute-method contract, too.
InitFault == \E c \in GoodClasses \cup FaultyClasses : InitFor(c)

SpecFault == InitFault /\ [][Next]_vars

\* Every owner class: DataflowSuccess, DataflowStale and the owners whose
\* declarations differ.
InitDecl == \E c \in GoodClasses \cup FaultyClasses \cup DeclaredClasses : InitFor(c)

SpecDecl == InitDecl /\ [][Next]_vars

\* A caller assigns to a derived attribute, too: obj.a2 = '0'.
NextAny ==
    /\ \/ Operation(1)
       \/ SetAttr(1, "a2", StrObj(<<"0">>))
    /\ UNCHANGED <<runs, created, seen>>

\* DataflowSuccess and the owner with an independent attribute constructed
\* without a value, with assignments to any attribute.
InitAny == \E c \in GoodClasses \cup {"DataflowUnset"} : InitFor(c)

SpecAny == InitAny /\ [][NextAny]_vars

\* The attributes whose __get__ ran and found the value invalid.
GetInvalidSet(trace) ==
    {trace[k].attr : k \in {j \in 1 .. Len(trace) : trace[j].ev = "get" /\ ~trace[j].ok}}

\* The history seen, kept from what the operation did.
SeenAfter ==
    [a \in Attrs |->
        IF seen[a] = 2 \/ (lastOp'.err = NoErr /\ a \in GetInvalidSet(lastOp'.trace))
        THEN 2
        ELSE IF seen[a] = 1 \/ a \in GetSet(lastOp'.trace) THEN 1 ELSE 0]

NextSeen == Operation(1) /\ seen' = SeenAfter /\ UNCHANGED <<runs, created>>

\* DataflowSuccess, DataflowStale and the owners that declare a derived
\* attribute with DependentAttr (init_value None, init_value '3'), with the
\* history of the reads.
InitSeen ==
    \E c \in GoodClasses \cup FaultyClasses \cup {"DataflowNoCalc", "DataflowPreset"} :
       InitFor(c)

SpecSeen == InitSeen /\ [][NextSeen]_vars

(***************************************************************************)
(* Properties.                                                             *)
(***************************************************************************)
Range(seq) == {seq[k] : k \in 1 .. Len(seq)}

\* The last operation was a read of attribute a that returned.
Returned(a) == lastOp.op = "get" /\ lastOp.attr = a /\ lastOp.err = NoErr

\* C1 (never stale): every read of a derived attribute that returns, returns
\* the string a from-scratch evaluation (full_update) builds from the values
\* a1 and a6 hold at that moment.
C1_NeverStale ==
    \A b \in Derived(cls) :
        Returned(b) =>
            /\ lastOp.ret.kind = "str"
            /\ lastOp.ret.val = full_update(value["a1"].val, value["a6"].val)[b]

\* A read of a7 that returned after a1 had become 9 and a6 had become 4, with
\* a2 registered as the first child of a1 (so a2 was first computed for a1 = 1).
C1_Witness ==
    /\ Returned("a7")
    /\ value["a1"].val = 9
    /\ value["a6"].val = 4
    /\ children["a1"][1] = "a2"
    /\ Eval(lastOp.ret.val) = 8350

\* C2 (per-instance isolation): an operation made on one instance changes
\* neither the value nor the children of any slot of another instance.
C2_Isolation ==
    [][\A i \in 1 .. created : \A j \in 1 .. created :
          (i # j /\ lastOp'.op \in {"get", "set"} /\ lastOp'.inst = i)
          => \A a \in Attrs : /\ SlotValue(j, a)' = SlotValue(j, a)
                              /\ SlotChildren(j, a)' = SlotChildren(j, a)]_vars

C4_EqualityNoOp ==
    [][(lastOp'.op = "set" /\ PyEq(value[lastOp'.attr], lastOp'.arg))
       => /\ SetSet(lastOp'.trace) = {lastOp'.attr}
          /\ \A a \in Attrs : IsNull(Heap, a) <=> Is(value'[a], AttrNullState)]_vars

\* C5 (memoization): a read of an attribute whose value is valid returns the
\* stored object, invokes no update function and changes no value and no
\* children list; and between two assignments that replace a value no
\* update function runs more than once.
C5_Memoization ==
    [][/\ (lastOp'.op = "get" /\ ~IsNull(Heap, lastOp'.attr))
          => /\ lastOp'.err = NoErr
             /\ Is(lastOp'.ret, value[lastOp'.attr])
             /\ CalcSet(lastOp'.trace) = {}
             /\ value' = value
             /\ children' = children
       /\ \A a \in Attrs : runs'[a] <= 1]_vars

\* A read of a7 that found it valid: the trace holds the one __get__ entry,
\* and update_a7 has run once since the last assignment.
C5_Witness ==
    /\ Returned("a7")
    /\ Len(lastOp.trace) = 1
    /\ lastOp.trace[1].ok
    /\ runs["a7"] = 1

\* The invalid attributes among a and its transitive dependencies.
InvalidAmong(a) ==
    {b \in {a} \cup TransitiveDependencies(cls, a) : IsNull(Heap, b)}

\* C6 (minimal lazy recomputation): a read of A invokes the update functions
\* of exactly the attributes that are invalid among A and its transitive
\* dependencies when the read starts, each once.
C6_MinimalRecompute ==
    [][lastOp'.op = "get"
       => /\ CalcSet(lastOp'.trace) = InvalidAmong(lastOp'.attr)
          /\ \A b \in Attrs : CalcCount(lastOp'.trace, b) <= 1]_vars

\* After everything was computed and a6 became 4, a read of a7 recomputed a5
\* and a7 and nothing else.
C6_Witness ==
    /\ Returned("a7")
    /\ value["a6"].val = 4
    /\ CalcSet(lastOp.trace) = {"a5", "a7"}
    /\ \A b \in Derived(cls) : ~IsNull(Heap, b)

\* The attributes whose update function ran, in the order of the calls.
CalcOrder(trace) == [k \in 1 .. Len(Calcs(trace)) |-> Calcs(trace)[k].attr]

RECURSIVE Visit(_, _), VisitAll(_, _, _)
\* Depth-first, dependencies first and left to right: the invalid attributes
\* under a that are not in done yet, appended to done.
Visit(a, done) ==
    IF ~IsNull(Heap, a) \/ a \in Range(done)
    THEN done
    ELSE Append(VisitAll(Dependencies(cls, a), 1, done), a)

VisitAll(deps, k, done) ==
    IF k > Len(deps) THEN done ELSE VisitAll(deps, k + 1, Visit(deps[k], done))

\* C7 (dependencies resolved before compute): whenever __get__ invokes an
\* update function, every declared dependency of its attribute holds a
\* value, and the update functions run in depth-first, left-to-right,
\* dependencies-first order.
C7_DepsResolvedFirst ==
    [][lastOp'.op = "get"
       => /\ \A k \in 1 .. Len(lastOp'.trace) :
                lastOp'.trace[k].ev = "calc" => lastOp'.trace[k].ok
          /\ CalcOrder(lastOp'.trace) = Visit(lastOp'.attr, <<>>)]_vars

\* The first read of a7: update_a2, update_a4, update_a3, update_a5 and
\* update_a7 ran in this order.
C7_Witness ==
    /\ Returned("a7")
    /\ CalcOrder(lastOp.trace) = <<"a2", "a4", "a3", "a5", "a7">>

\* '((1*(1+2)+4)*(1+(1+2)+((1+2)+3)*6+5)+7)'
ReferenceExpression ==
    <<"(", "(", "1", "*", "(", "1", "+", "2", ")", "+", "4", ")", "*",
      "(", "1", "+", "(", "1", "+", "2", ")", "+",
      "(", "(", "1", "+", "2", ")", "+", "3", ")", "*", "6", "+", "5", ")",
      "+", "7", ")">>

\* a1 = 1, a6 = 6 and no derived attribute holds a value.
ReferenceStart ==
    /\ value["a1"].val = 1
    /\ value["a6"].val = 6
    /\ \A b \in Derived(cls) : IsNull(Heap, b)

\* C8 (reference scenario), as claimed: from a1 = 1, a6 = 6 the read of a7
\* runs each of the five update functions once and returns the reference
\* expression, which evaluates to 196.
C8_Reference196 ==
    [][(ReferenceStart /\ lastOp'.op = "get" /\ lastOp'.attr = "a7")
       => /\ \A b \in Derived(cls) : CalcCount(lastOp'.trace, b) = 1
          /\ lastOp'.ret.val = ReferenceExpression
          /\ Eval(lastOp'.ret.val) = 196]_vars

\* C8 (reference scenario), amended: the expression evaluates to 322.
C8_Reference322 ==
    [][(ReferenceStart /\ lastOp'.op = "get" /\ lastOp'.attr = "a7")
       => /\ \A b \in Derived(cls) : CalcCount(lastOp'.trace, b) = 1
          /\ lastOp'.ret.val = ReferenceExpression
          /\ Eval(lastOp'.ret.val) = 322]_vars

\* The read of a7 that computed all five attributes from a1 = 1 and a6 = 6.
C8_Witness ==
    /\ Returned("a7")
    /\ value["a1"].val = 1
    /\ value["a6"].val = 6
    /\ Len(CalcOrder(lastOp.trace)) = 5
    /\ Eval(lastOp.ret.val) = 322

\* Instance i has just been constructed: no attribute of it has been read.
JustConstructed(i) == lastOp.op = "new" /\ lastOp.inst = i

\* C9 (lazy edge discovery gap): on an instance on which B has never been
\* read (here: none has, the instance has just been constructed), B is in
\* the children of none of its dependencies, and an assignment that replaces
\* the value of a dependency writes no other slot.
C9_NeverReadNotChild ==
    [][\A i \in 1 .. created' :
          /\ JustConstructed(i)'
             => \A a \in Attrs : \A b \in Attrs :
                   DependsOn(cls, b, a) => b \notin Range(SlotChildren(i, a)')
          /\ (JustConstructed(i) /\ lastOp'.op = "set" /\ lastOp'.inst = i)
             => SetSet(lastOp'.trace) = {lastOp'.attr}]_vars

\* C10 (a read never returns the null state): a read that returns, returns
\* the value the attribute holds, which is not AttrNullState; a read that
\* leaves its attribute invalid fails; and it fails with StaleComputeError
\* when the attribute's update function ran and did not assign it.
C10_NeverReturnsInvalid ==
    lastOp.op = "get"
    => /\ lastOp.err = NoErr
          => ~Is(lastOp.ret, AttrNullState) /\ Is(lastOp.ret, value[lastOp.attr])
       /\ IsNull(Heap, lastOp.attr) => lastOp.err # NoErr
       /\ (IsNull(Heap, lastOp.attr) /\ lastOp.attr \in CalcSet(lastOp.trace))
          => lastOp.err = StaleComputeError

\* The read of a3 in the class whose update_a3 assigns nothing: update_a3
\* ran and the read failed with StaleComputeError.
C10_Witness ==
    /\ cls = "DataflowStale"
    /\ lastOp.op = "get"
    /\ lastOp.attr = "a3"
    /\ "a3" \in CalcSet(lastOp.trace)
    /\ lastOp.err = StaleComputeError

\* The derived dependencies of a whose update function this operation
\* invoked and that are still invalid after it.
FailedDependencies(a) ==
    {D \in Derived(cls) :
        DependsOn(cls, a, D) /\ D \in CalcSet(lastOp.trace) /\ IsNull(Heap, D)}

\* C11 (DependencyUpdateError): a read of A that resolved a derived
\* dependency D whose update function ran and left D invalid fails with
\* DependencyUpdateError.
C11_DependencyUpdateError ==
    (lastOp.op = "get" /\ FailedDependencies(lastOp.attr) # {})
    => lastOp.err = DependencyUpdateError

\* The operation being made is a read of an invalid derived attribute.
ReadsInvalid(a) ==
    /\ lastOp'.op = "get"
    /\ lastOp'.attr = a
    /\ a \in Derived(cls)
    /\ IsNull(Heap, a)

\* C12 (MissingComputeError), as claimed: a read of an invalid derived
\* attribute that names a method the owner lacks, or that declares no
\* compute method at all, fails with MissingComputeError and leaves the
\* attribute invalid.
C12_MissingComputeAlways ==
    [][\A a \in Attrs :
          (ReadsInvalid(a) /\ CalcFunc(cls, a) \notin Methods(cls))
          => /\ lastOp'.err = MissingComputeError
             /\ Is(value'[a], AttrNullState)]_vars

\* C12 (MissingComputeError), amended: with a method name the owner lacks
\* the read fails with MissingComputeError, which is not StaleComputeError;
\* with no compute method declared it fails with StaleComputeError; the
\* attribute is left invalid and no update function of it is invoked.
C12_MissingCompute ==
    [][\A a \in Attrs :
          (ReadsInvalid(a) /\ CalcFunc(cls, a) \notin Methods(cls))
          => /\ CalcFunc(cls, a) # NoCalc => lastOp'.err = MissingComputeError
             /\ CalcFunc(cls, a) = NoCalc => lastOp'.err = StaleComputeError
             /\ MissingComputeError # StaleComputeError
             /\ a \notin CalcSet(lastOp'.trace)
             /\ Is(value'[a], AttrNullState)]_vars

\* The read of a3 in the class that does not define update_a3: a3 was
\* registered as a child of a2, a2 was computed, and the read failed with
\* MissingComputeError.
C12_Witness ==
    /\ cls = "DataflowNoMethod"
    /\ lastOp.op = "get"
    /\ lastOp.attr = "a3"
    /\ lastOp.err = MissingComputeError
    /\ children["a2"] = <<"a3">>
    /\ ~IsNull(Heap, "a2")
    /\ IsNull(Heap, "a3")

\* The position of the first declared dependency of a the owner lacks, or 0.
FirstMissing(a) ==
    LET deps == Dependencies(cls, a)
        missing == {k \in 1 .. Len(deps) : ~ClassHasAttr(cls, deps[k])}
    IN IF missing = {} THEN 0 ELSE CHOOSE k \in missing : \A j \in missing : k <= j

\* The dependencies of a declared before position k, and what they need.
NeededBefore(a, k) ==
    LET before == {Dependencies(cls, a)[j] : j \in 1 .. k - 1}
    IN before \cup UNION {TransitiveDependencies(cls, d) : d \in before}

\* C13 (MissingDependencyError): a read of an invalid attribute A whose
\* dependency list names an identifier D the owner lacks fails with
\* MissingDependencyError; the dependencies declared before D are valid and
\* have A as a child, those declared after D have not been read (unless one
\* before D needs them), A's update function is not invoked and A is still
\* invalid.
C13_MissingDependency ==
    [][\A a \in Attrs :
          (ReadsInvalid(a) /\ FirstMissing(a) > 0)
          => LET deps == Dependencies(cls, a)
                 m == FirstMissing(a)
             IN /\ lastOp'.err = MissingDependencyError
                /\ \A j \in 1 .. m - 1 :
                      /\ ~Is(value'[deps[j]], AttrNullState)
                      /\ a \in Range(children'[deps[j]])
                /\ \A j \in m + 1 .. Len(deps) :
                      deps[j] \notin NeededBefore(a, m)
                      => /\ deps[j] \notin GetSet(lastOp'.trace)
                         /\ children'[deps[j]] = children[deps[j]]
                /\ CalcSet(lastOp'.trace) \subseteq NeededBefore(a, m)
                /\ Is(value'[a], AttrNullState)]_vars

\* The read of a5 in the class whose a5 depends on a1, a2, a0, a3, a6: it
\* failed with MissingDependencyError after a5 became a child of a1 and a2
\* and a2 was computed; a3 and a6 were not reached.
C13_Witness ==
    /\ cls = "DataflowMissingDep"
    /\ lastOp.op = "get"
    /\ lastOp.attr = "a5"
    /\ lastOp.err = MissingDependencyError
    /\ children["a1"] = <<"a5", "a2">>
    /\ children["a2"] = <<"a5">>
    /\ CalcSet(lastOp.trace) = {"a2"}
    /\ IsNull(Heap, "a3")
    /\ children["a6"] = <<>>

RECURSIVE KnownReach(_, _)
\* The attributes reached from a through at most n known children edges.
KnownReach(a, n) ==
    IF n = 0 THEN {}
    ELSE Range(children[a]) \cup UNION {KnownReach(b, n - 1) : b \in Range(children[a])}

KnownDependents(a) == KnownReach(a, Cardinality(Attrs))

\* C14 (write post-condition and frame): an assignment to A of a value that
\* differs from the stored one leaves A holding that value and every
\* attribute reachable from A through the known children edges invalid,
\* changes no other value and no children list, and runs no __get__ and no
\* update function.
C14_WriteFrame ==
    [][(lastOp'.op = "set" /\ ~PyEq(value[lastOp'.attr], lastOp'.arg))
       => LET A == lastOp'.attr
          IN /\ PyEq(value'[A], lastOp'.arg)
             /\ \A b \in KnownDependents(A) : Is(value'[b], AttrNullState)
             /\ \A b \in Attrs \ ({A} \cup KnownDependents(A)) : value'[b] = value[b]
             /\ children' = children
             /\ CalcSet(lastOp'.trace) = {}
             /\ GetSet(lastOp'.trace) = {}
             /\ lastOp'.err = NoErr]_vars

\* The assignment a1 = 9 made when every attribute was valid and every edge
\* known: it replaced the value of a1, a2, a3, a4, a5 and a7, and a6 kept 6.
C14_Witness ==
    /\ lastOp.op = "set"
    /\ lastOp.attr = "a1"
    /\ value["a1"].val = 9
    /\ StoredSet(lastOp.trace) = Attrs \ {"a6"}
    /\ \A b \in Derived(cls) : IsNull(Heap, b)
    /\ value["a6"].val = 6
    /\ children["a3"] = <<"a5">>

\* The attributes that declare a as a dependency.
ReverseDependencies(a) == {b \in Attrs : DependsOn(cls, b, a)}

IsPrefix(p, q) == Len(p) <= Len(q) /\ \A k \in 1 .. Len(p) : p[k] = q[k]

\* The children lists hold no duplicate and only attributes that declare the
\* slot as a dependency.
ChildrenSound ==
    \A a \in Attrs :
       /\ Range(children[a]) \subseteq ReverseDependencies(a)
       /\ Cardinality(Range(children[a])) = Len(children[a])

\* ... and they only grow.
ChildrenGrow == \A a \in Attrs : IsPrefix(children[a], children'[a])

ChildrenComplete == \A a \in Attrs : Range(children[a]) = ReverseDependencies(a)

\* C15 (children invariant), as claimed: the children lists are sound, only
\* grow, and are complete once the __get__ of every attribute has run.
C15_ChildrenOnceRead ==
    /\ []ChildrenSound
    /\ [][ChildrenGrow]_vars
    /\ []((\A a \in Attrs : seen[a] >= 1) => ChildrenComplete)

\* C15 (children invariant), amended: they are complete once every derived
\* attribute has been found invalid by a read that returned.
C15_ChildrenOnceResolved ==
    /\ []ChildrenSound
    /\ [][ChildrenGrow]_vars
    /\ []((\A a \in Derived(cls) : seen[a] = 2) => ChildrenComplete)

\* Every derived attribute has been found invalid by a read that returned,
\* a1 has since been assigned 9, and the children lists are complete.
C15_Witness ==
    /\ \A a \in Derived(cls) : seen[a] = 2
    /\ value["a1"].val = 9
    /\ children["a2"] = <<"a3", "a4", "a5">>
    /\ ChildrenComplete

\* The __set__ calls an operation made beyond the caller's own assignment.
NestedSets(op) ==
    {op.trace[k].attr :
        k \in {j \in 1 .. Len(op.trace) :
                  /\ op.trace[j].ev = "set"
                  /\ ~(op.op = "set" /\ j = 1)}}

\* C16 (independent attributes are never invalid): every attribute without
\* dependencies holds a value, one constructed with None included; it is a
\* child of no attribute, and no __set__ other than a caller's own
\* assignment is ever made on it.
C16_IndependentValid ==
    \A a \in Independent(cls) :
       /\ ~IsNull(Heap, a)
       /\ \A b \in Attrs : a \notin Range(children[b])
       /\ a \notin NestedSets(lastOp)

\* In the owner whose a6 is constructed without a value: a read of a6 that
\* returned None after a5 had become a child of a6 and an assignment to a1
\* had invalidated a5.
C16_Witness ==
    /\ cls = "DataflowUnset"
    /\ Returned("a6")
    /\ Is(lastOp.ret, PyNone)
    /\ children["a6"] = <<"a5">>
    /\ value["a1"].val = 9
    /\ IsNull(Heap, "a5")

\* The deepest nesting of __get__ calls and of __set__ calls in a trace.
Depth(trace, evs) ==
    LET ds == {trace[k].d : k \in {j \in 1 .. Len(trace) : trace[j].ev \in evs}}
    IN IF ds = {} THEN 0 ELSE CHOOSE m \in ds : \A o \in ds : o <= m

\* C17 (termination and bounded recursion): every read and assignment made
\* has completed, having returned from every __get__ and __set__ call or
\* raised, and its __get__ calls and its __set__ calls were each nested no
\* deeper than the number of attributes on the longest dependency chain.
C17_BoundedRecursion ==
    /\ lastOp.open = 0
    /\ lastOp.op = "get" => Len(lastOp.trace) >= 1
    /\ \E longest \in {LongestChain(cls)} :
          \A k \in 1 .. Len(lastOp.trace) : lastOp.trace[k].d <= longest

\* A read of a7 that nested four __get__ calls (a7, a4, a2, a1), the longest
\* chain (a1, a2, a3, a5, a7) having five attributes.
C17_Witness ==
    /\ Returned("a7")
    /\ LongestChain(cls) = 5
    /\ Depth(lastOp.trace, {"get"}) = 4
    /\ \E k \in 1 .. Len(lastOp.trace) :
          lastOp.trace[k].d = 4 /\ lastOp.trace[k].attr = "a1"

\* An assignment to a1 that nested five __set__ calls (a1, a2, a3, a5, a7).
C17_WitnessSet ==
    /\ lastOp.op = "set"
    /\ lastOp.attr = "a1"
    /\ Depth(lastOp.trace, {"set"}) = 5

\* Every derived attribute of the class is constructed invalid.
DerivedStartInvalid == \A b \in Derived(cls) : Is(ClassDict(cls)[b].value, AttrNullState)

\* C18 (validity is downward closed): in a class whose derived attributes
\* start invalid, a valid derived attribute B has every declared dependency
\* valid and is in the children of each; and an invalid attribute has no
\* valid known child.
C18_DownwardClosed ==
    DerivedStartInvalid
    => /\ \A B \in Derived(cls) :
             ~IsNull(Heap, B)
             => \A D \in Attrs :
                   DependsOn(cls, B, D) => ~IsNull(Heap, D) /\ B \in Range(children[D])
       /\ \A a \in Attrs :
             IsNull(Heap, a) => \A b \in Range(children[a]) : IsNull(Heap, b)

\* After everything was computed and a6 became 4: a2, a3 and a4 are valid,
\* a5 and its known child a7 are invalid.
C18_Witness ==
    /\ cls = "DataflowSuccess"
    /\ lastOp.op = "set"
    /\ lastOp.attr = "a6"
    /\ value["a6"].val = 4
    /\ \A b \in {"a2", "a3", "a4"} : ~IsNull(Heap, b)
    /\ \A b \in {"a5", "a7"} : IsNull(Heap, b)
    /\ children["a5"] = <<"a7">>

\* The operation being made runs the first __get__ of b, and returns.
FirstGet(b) ==
    /\ seen[b] = 0
    /\ b \in GetSet(lastOp'.trace)
    /\ lastOp'.err = NoErr

\* The first __get__ of b registers it with every dependency and invokes its
\* update function.
FirstGetComputes(b) ==
    /\ b \in CalcSet(lastOp'.trace)
    /\ \A D \in Attrs : DependsOn(cls, b, D) => b \in Range(children'[D])

\* C19 (derived attributes start invalid), as claimed: every attribute with
\* a dependency is invalid until its first __get__, which registers it as a
\* child of each dependency and invokes its update function.
C19_DerivedStartInvalid ==
    /\ [](\A b \in Derived(cls) : seen[b] = 0 => IsNull(Heap, b))
    /\ [][\A b \in Derived(cls) : FirstGet(b) => FirstGetComputes(b)]_vars

\* C19 (derived attributes start invalid), amended: this holds of the
\* attributes declared with DeterminantAttr or with an init_value of None;
\* one declared with another init_value is valid from construction, and its
\* first __get__ returns that value, registers no child and invokes no
\* update function of it.
C19_DeclaredStartInvalid ==
    /\ [](\A b \in Derived(cls) \ PresetAttrs(cls) : seen[b] = 0 => IsNull(Heap, b))
    /\ [][\A b \in Derived(cls) \ PresetAttrs(cls) :
             FirstGet(b) => FirstGetComputes(b)]_vars
    /\ [][\A b \in PresetAttrs(cls) :
             /\ PyEq(value[b], ClassBody(cls)[b].value)
             /\ (lastOp'.op = "get" /\ lastOp'.attr = b)
                => /\ PyEq(lastOp'.ret, ClassBody(cls)[b].value)
                   /\ lastOp'.trace = <<[ev |-> "get", attr |-> b, ok |-> TRUE, d |-> 1]>>
                   /\ children' = children]_vars

\* The first read of a5 in DataflowSuccess, made before any other read: it
\* ran the first __get__ of a2, a3 and a5, registered each with its
\* dependencies and invoked their update functions; a4 and a7 are still
\* unread and invalid.
C19_Witness ==
    /\ cls = "DataflowSuccess"
    /\ Returned("a5")
    /\ CalcSet(lastOp.trace) = {"a2", "a3", "a5"}
    /\ children["a1"] = <<"a5", "a2">>
    /\ children["a2"] = <<"a5", "a3">>
    /\ seen["a4"] = 0 /\ IsNull(Heap, "a4")
    /\ seen["a7"] = 0 /\ IsNull(Heap, "a7")

\* The attributes an update function assigned in the operation (a __set__
\* called from outside any __set__ that replaced the value).
AssignedByUpdate(op) ==
    {op.trace[k].attr :
        k \in {j \in 1 .. Len(op.trace) :
                  /\ op.op = "get"
                  /\ op.trace[j].ev = "set"
                  /\ op.trace[j].ok
                  /\ op.trace[j].d = 1}}

\* C20 (state after a failed get): when a read of A fails with one of the
\* errors of __get__, A is still invalid and nothing was stored in it; what
\* was valid before is unchanged, what the read computed before failing is
\* valid, and no children list lost an entry; and a read of A that follows
\* finds A invalid and resolves its dependencies again.
C20_FailedGet ==
    [][/\ (lastOp'.op = "get" /\ lastOp'.err \in EngineErrors)
          => LET A == lastOp'.attr
             IN /\ IsNull(Heap, A)
                /\ Is(value'[A], AttrNullState)
                /\ A \notin StoredSet(lastOp'.trace)
                /\ \A b \in Attrs : ~IsNull(Heap, b) => value'[b] = value[b]
                /\ \A b \in AssignedByUpdate(lastOp') : ~Is(value'[b], AttrNullState)
                /\ \A b \in Attrs : IsPrefix(children[b], children'[b])
       /\ (/\ lastOp.op = "get"
           /\ lastOp.err \in EngineErrors
           /\ lastOp'.op = "get"
           /\ lastOp'.attr = lastOp.attr)
          => /\ ~lastOp'.trace[1].ok
             /\ Len(lastOp'.trace) > 1
             /\ lastOp'.err \in EngineErrors]_vars

\* The read of a7 in the class whose update_a3 assigns nothing: it computed
\* a2 and a4, registered a7 with a4, and failed on a3 under a5; a2 and a4
\* are valid, a7 is invalid.
C20_Witness ==
    /\ cls = "DataflowStale"
    /\ lastOp.op = "get"
    /\ lastOp.attr = "a7"
    /\ lastOp.err = StaleComputeError
    /\ AssignedByUpdate(lastOp) = {"a2", "a4"}
    /\ ~IsNull(Heap, "a2") /\ ~IsNull(Heap, "a4")
    /\ children["a4"] = <<"a7">>
    /\ IsNull(Heap, "a7")

====
